---- MODULE Spec2Model ----
(***************************************************************************)
(* django-oscar-fees: the rule evaluation and fee allocation engine.       *)
(*                                                                         *)
(* Money is counted in cents (Decimal with two places), a condition's      *)
(* value in hundredths (its Decimal has two places as well).  An optional  *)
(* attribute or nullable column is the empty set (None / attribute not     *)
(* set) or a singleton {v}.                                                *)
(***************************************************************************)
EXTENDS Integers, Sequences, FiniteSets, TLC

VARIABLES lines, basket, conditional_fees, applicator, last, suspended_since,
          checkout, sessions

vars == <<lines, basket, conditional_fees, applicator, last, suspended_since,
          checkout, sessions>>

\* ------------------------------------------------------------------ bounds
MaxLines == 3
MaxCalls == 1

\* ---------------------------------------------------------------- optionals
None == {}
Some(v) == {v}
Get(x, default) == IF x = {} THEN default ELSE CHOOSE v \in x : TRUE
\* Python truth value of an optional number: None and 0 are both false.
Truthy(x) == x # {} /\ (CHOOSE v \in x : TRUE) # 0

RECURSIVE SumSeq(_)
SumSeq(s) == IF s = <<>> THEN 0 ELSE Head(s) + SumSeq(Tail(s))

Min(S) == CHOOSE m \in S : \A x \in S : m <= x
Max2(a, b) == IF a >= b THEN a ELSE b

\* ------------------------------------------------------------ results.py
\* An ApplicationResult: its class and the fee it carries.
BasketFee(amount) == [class |-> "BasketFee", fee |-> amount]

ZERO_FEE == BasketFee(0)

ApplicationResult_is_final == FALSE

\* Mutant: a BasketFee that is not final.
BasketFee_never_final == FALSE

BasketFee_is_final == TRUE

\* Mutant: a fee of zero counted as a success.
is_successful_zero(result) == result.fee >= 0

is_final(result) ==
    IF result.class = "BasketFee" THEN BasketFee_is_final
    ELSE ApplicationResult_is_final

is_successful(result) ==
    IF result.class = "BasketFee" THEN result.fee > 0 ELSE FALSE

\* --------------------------------------------------------- Fee (models.py)
\* Fee.round of the quotient num / den (in cents): quantize to the cent,
\* ROUND_DOWN, which truncates toward zero.
round(num, den) ==
    IF num >= 0 THEN num \div den ELSE -((-num) \div den)

\* sorted(line_tuples, key=itemgetter(0)): a stable sort by price.  One
\* insertion puts a tuple behind every tuple whose price is not larger.
RECURSIVE InsertTuple(_, _)
InsertTuple(sorted_tuples, t) ==
    IF sorted_tuples = <<>> THEN <<t>>
    ELSE IF Head(sorted_tuples).price <= t.price
         THEN <<Head(sorted_tuples)>> \o InsertTuple(Tail(sorted_tuples), t)
         ELSE <<t>> \o sorted_tuples

\* Mutant: the tuples left in basket order.
sorted_unsorted(line_tuples) == line_tuples

RECURSIVE sorted(_)
sorted(line_tuples) ==
    IF line_tuples = <<>> THEN <<>>
    ELSE InsertTuple(sorted(SubSeq(line_tuples, 1, Len(line_tuples) - 1)),
                     line_tuples[Len(line_tuples)])

\* Mutant: a line that already carries a fee is passed over.
is_applicable_line_once(line, range) ==
    /\ line.product \in range
    /\ line.unit_effective_price # 0
    /\ line.quantity_without_discount # 0
    /\ line._fee_quantity = {}

\* The filter of Fee.get_applicable_lines: the line's product is in the
\* range, its price is not zero, some quantity is left without discount.
is_applicable_line(line, range) ==
    /\ line.product \in range
    /\ line.unit_effective_price # 0
    /\ line.quantity_without_discount # 0

RECURSIVE applicable_tuples(_, _, _)
applicable_tuples(ls, range, k) ==
    IF k > Len(ls) THEN <<>>
    ELSE (IF is_applicable_line(ls[k], range)
          THEN <<[price |-> ls[k].unit_effective_price, line |-> k]>>
          ELSE <<>>) \o applicable_tuples(ls, range, k + 1)

\* Fee.get_applicable_lines: (price, line) tuples, a line named by its
\* position in basket.all_lines().
get_applicable_lines(ls, range) == sorted(applicable_tuples(ls, range, 1))

\* ------------------------------------------------------------- fees.py
apply_fee_to_line(line, line_fee, quantity) ==
    [line EXCEPT !._fee_amount = Some(Get(line._fee_amount, 0) + line_fee),
                 !._fee_quantity = Some(Get(line._fee_quantity, 0) + quantity)]

\* Mutant: the fee listed, the total left as it was.
apply_fee_to_basket_untotalled(b, fee, fees_amount) ==
    [b EXCEPT !._fees = Some(Append(Get(b._fees, <<>>), fee)),
              !._total_fees_amount = Some(Get(b._total_fees_amount, 0))]

apply_fee_to_basket(b, fee, fees_amount) ==
    [b EXCEPT !._fees = Some(Append(Get(b._fees, <<>>), fee)),
              !._total_fees_amount = Some(Get(b._total_fees_amount, 0) + fees_amount)]

\* fee_amount as AbsoluteFee.apply settles it before the zero test.
fee_amount_of(fee, fee_amount, max_total_fee) ==
    LET a == IF fee_amount = None THEN fee.value ELSE Get(fee_amount, 0)
    IN IF max_total_fee # None /\ Get(max_total_fee, 0) < a
       THEN Get(max_total_fee, 0) ELSE a

num_permitted_of(condition) == condition.value \div 100

\* Mutant: one unit of every line, whatever the condition.
quantity_affected_always_one(condition, line) == 1

quantity_affected_of(condition, line) ==
    IF condition.type = "Coverage" THEN 1 ELSE line.quantity

\* Mutant: the line that crosses the threshold is covered only up to it.
RECURSIVE covered_lines_partial(_, _, _, _, _)
covered_lines_partial(ls, line_tuples, condition, k, num_affected) ==
    IF k > Len(line_tuples) THEN <<>>
    ELSE LET t == line_tuples[k]
             left == (condition.value \div 100) - num_affected
             q == IF ls[t.line].quantity < left \/ left <= 0
                  THEN ls[t.line].quantity ELSE left
             n == num_affected + q
         IN <<[price |-> t.price, line |-> t.line, quantity |-> q]>>
            \o (IF n >= condition.value \div 100 THEN <<>>
                ELSE covered_lines_partial(ls, line_tuples, condition, k + 1, n))

\* The first loop of AbsoluteFee.apply: the covered lines.
RECURSIVE covered_lines_of(_, _, _, _, _)
covered_lines_of(ls, line_tuples, condition, k, num_affected) ==
    IF k > Len(line_tuples) THEN <<>>
    ELSE LET t == line_tuples[k]
             quantity_affected == quantity_affected_of(condition, ls[t.line])
             n == num_affected + quantity_affected
         IN <<[price |-> t.price, line |-> t.line, quantity |-> quantity_affected]>>
            \o (IF n >= num_permitted_of(condition) THEN <<>>
                ELSE covered_lines_of(ls, line_tuples, condition, k + 1, n))

RECURSIVE quantity_sum(_)
quantity_sum(covered) ==
    IF covered = <<>> THEN 0 ELSE Head(covered).quantity + quantity_sum(Tail(covered))

\* Mutant: the last line gets its rounded share like every other line.
line_fee_no_remainder(covered, k, fee_amount, num_affected, fee_applied) ==
    round(fee_amount * covered[k].quantity, num_affected)

\* The fee of the k-th covered line, fee_applied being the fees before it.
line_fee_of(covered, k, fee_amount, num_affected, fee_applied) ==
    IF covered[k].line = covered[Len(covered)].line
    THEN fee_amount - fee_applied
    ELSE round(fee_amount * covered[k].quantity, num_affected)

\* The second loop of AbsoluteFee.apply: the fee of every covered line.
RECURSIVE line_fees_of(_, _, _, _, _)
line_fees_of(covered, fee_amount, num_affected, k, fee_applied) ==
    IF k > Len(covered) THEN <<>>
    ELSE LET line_fee == line_fee_of(covered, k, fee_amount, num_affected, fee_applied)
         IN <<line_fee>> \o line_fees_of(covered, fee_amount, num_affected, k + 1,
                                         fee_applied + line_fee)

\* The lines after the second loop's apply_fee_to_line calls.
RECURSIVE annotate_lines(_, _, _, _)
annotate_lines(ls, covered, line_fees, k) ==
    IF k > Len(covered) THEN ls
    ELSE annotate_lines(
            [ls EXCEPT ![covered[k].line] =
                apply_fee_to_line(@, line_fees[k], covered[k].quantity)],
            covered, line_fees, k + 1)

NoTrace == [fee_amount |-> 0, line_tuples |-> <<>>, covered |-> <<>>,
            line_fees |-> <<>>, num_affected |-> 0]

\* AbsoluteFee.apply(basket, condition, offer, fee_amount, max_total_fee):
\* the result, the lines and the basket after it, and what it computed.
AbsoluteFee_apply(ls, b, condition, fee, fee_amount, max_total_fee) ==
    LET amount == fee_amount_of(fee, fee_amount, max_total_fee)
        line_tuples == get_applicable_lines(ls, condition.range)
        covered == covered_lines_of(ls, line_tuples, condition, 1, 0)
        num_affected == quantity_sum(covered)
        line_fees == line_fees_of(covered, amount, num_affected, 1, 0)
    IN IF amount = 0
       THEN [result |-> ZERO_FEE, lines |-> ls, basket |-> b,
             trace |-> [NoTrace EXCEPT !.fee_amount = amount]]
       ELSE IF line_tuples = <<>>
       THEN [result |-> ZERO_FEE, lines |-> ls, basket |-> b,
             trace |-> [NoTrace EXCEPT !.fee_amount = amount]]
       ELSE [result |-> BasketFee(amount),
             lines |-> annotate_lines(ls, covered, line_fees, 1),
             basket |-> apply_fee_to_basket(b, fee.id, amount),
             trace |-> [fee_amount |-> amount, line_tuples |-> line_tuples,
                        covered |-> covered, line_fees |-> line_fees,
                        num_affected |-> num_affected]]

\* ------------------------------------------- Condition (conditions.py)
RECURSIVE units_of(_, _)
units_of(ls, S) ==
    IF S = {} THEN 0
    ELSE LET k == CHOOSE x \in S : TRUE
         IN ls[k].quantity + units_of(ls, S \ {k})

RECURSIVE price_of(_, _)
price_of(ls, S) ==
    IF S = {} THEN 0
    ELSE LET k == CHOOSE x \in S : TRUE
         IN ls[k].unit_effective_price * ls[k].quantity + price_of(ls, S \ {k})

\* Condition.is_satisfied of the three condition types: Count compares the
\* units of the lines in range, Value their summed price, Coverage the
\* number of lines in range, each with the condition's value.
is_satisfied(condition, ls) ==
    LET qualifying == {k \in 1..Len(ls) : ls[k].product \in condition.range}
    IN CASE condition.type = "Count" ->
                100 * units_of(ls, qualifying) >= condition.value
         [] condition.type = "Value" ->
                price_of(ls, qualifying) >= condition.value
         [] condition.type = "Coverage" ->
                100 * Cardinality(qualifying) >= condition.value

\* ------------------------------------------- ConditionalFee (models.py)
\* A call that raised, and a call that returned v.
Raised == [raised |-> TRUE, value |-> 0]
Returned(v) == [raised |-> FALSE, value |-> v]

MaxApplicationsCeiling == 10000

is_suspended(offer) == offer.status = "Suspended"

is_condition_satisfied(offer, ls) == is_satisfied(offer.condition, ls)

\* Fee.proxy().apply: an Absolute fee applies, a Percentage fee raises
\* NotImplementedError.
fee_proxy_apply(ls, b, offer) ==
    IF offer.fee.type = "Absolute"
    THEN [raised |-> FALSE] @@
         AbsoluteFee_apply(ls, b, offer.condition, offer.fee, None, None)
    ELSE [raised |-> TRUE, result |-> ZERO_FEE, lines |-> ls, basket |-> b,
          trace |-> NoTrace]

\* Mutant: the fee applied without asking the condition.
apply_fee_unchecked(offer, ls, b) == fee_proxy_apply(ls, b, offer)

\* ConditionalFee.apply_fee(basket)
apply_fee(offer, ls, b) ==
    IF ~is_condition_satisfied(offer, ls)
    THEN [raised |-> FALSE, result |-> ZERO_FEE, lines |-> ls, basket |-> b,
          trace |-> NoTrace]
    ELSE fee_proxy_apply(ls, b, offer)

\* ConditionalFee.get_num_user_applications raises NotImplementedError
\* before it reads anything.
get_num_user_applications(offer, user) == Raised

\* ConditionalFee.get_max_applications(user); user is None or {a user}.
get_max_applications(offer, user) ==
    IF Truthy(offer.max_fee) /\ offer.total_fee >= Get(offer.max_fee, 0)
    THEN Returned(0)
    ELSE LET counts_user == Truthy(offer.max_user_applications) /\ user # None
             used == IF counts_user
                     THEN get_num_user_applications(offer, Get(user, "nobody"))
                     ELSE Returned(0)
             limits ==
                 {MaxApplicationsCeiling}
                 \cup (IF counts_user
                       THEN {Max2(0, Get(offer.max_user_applications, 0) - used.value)}
                       ELSE {})
                 \cup (IF Truthy(offer.max_basket_applications)
                       THEN {Get(offer.max_basket_applications, 0)}
                       ELSE {})
                 \cup (IF Truthy(offer.max_global_applications)
                       THEN {Max2(0, Get(offer.max_global_applications, 0)
                                     - offer.num_applications)}
                       ELSE {})
         IN IF used.raised THEN Raised ELSE Returned(Min(limits))

\* Mutant: the status derived for a suspended offer as well.
save_ignoring_suspension(offer) ==
    [offer EXCEPT !.status =
        IF get_max_applications(offer, None).value = 0
        THEN "Consumed" ELSE "Open"]

\* ConditionalFee.save: the status is derived unless the offer is suspended.
save(offer) ==
    IF ~is_suspended(offer)
    THEN [offer EXCEPT !.status =
            IF get_max_applications(offer, None).value = 0
            THEN "Consumed" ELSE "Open"]
    ELSE offer

suspend(offer) == save([offer EXCEPT !.status = "Suspended"])

unsuspend(offer) == save([offer EXCEPT !.status = "Open"])

\* ConditionalFee.record_usage(fee), fee a mapping with 'freq' and 'fee'.
record_usage(offer, fee) ==
    save([offer EXCEPT !.num_applications = @ + fee.freq,
                       !.total_fee = @ + fee.fee,
                       !.num_orders = @ + 1])

\* ------------------------------------------------------------------ inputs
Products == {1, 2}
Prices == {500, 1000, 2000}
Quantities == {1, 3, 5}

Line(product, price, quantity, quantity_without_discount) ==
    [product |-> product, unit_effective_price |-> price, quantity |-> quantity,
     quantity_without_discount |-> quantity_without_discount,
     _fee_amount |-> None, _fee_quantity |-> None]

\* Lines of product 1: every price at quantity 1 and every quantity at one
\* price; and one line of each kind the line selector leaves out: a product
\* outside the range, a free product, a line whose whole quantity a
\* discount has consumed.
LineChoices ==
    {Line(1, p, 1, 1) : p \in Prices}
    \cup {Line(1, 1000, q, q) : q \in Quantities}
    \cup {Line(2, 500, 1, 1), Line(1, 0, 1, 1), Line(1, 500, 3, 0)}

LineLists == UNION {[1..n -> LineChoices] : n \in 0..MaxLines}

ConditionChoices ==
    [type : {"Count", "Value", "Coverage"}, range : {{1}}, value : {250, 600}]

FeeValues == {0, 100}
FeeAmountArgs == {None, Some(250)}
MaxTotalFeeArgs == {None, Some(0)}

Fee(id, type, value) == [id |-> id, type |-> type, value |-> value]

\* A ConditionalFee as its field defaults make it.
ConditionalFee(id, condition, fee) ==
    [id |-> id, offer_type |-> "Site", status |-> "Open",
     condition |-> condition, fee |-> fee,
     start_datetime |-> None, end_datetime |-> None,
     max_global_applications |-> None, max_user_applications |-> None,
     max_basket_applications |-> None, max_fee |-> None,
     total_fee |-> 0, num_applications |-> 0, num_orders |-> 0]

\* A basket as a request loads it: no fee attribute set yet.
Basket(owner) ==
    [owner |-> owner, _total_fees_amount |-> None, _fees |-> None,
     total_test |-> 0, fee_applications |-> None]

\* Applicator.apply_fees at rest: its locals (fees, the position idx in
\* fees, num_applications, applications), where it stands (pc), how it
\* raised (error), and a count of the attempts of every offer in this pass
\* and of the passes over this basket; previous is the list of offers of
\* the pass before this one when that pass came to its end.
IdleApplicator ==
    [pc |-> "idle", fees |-> <<>>, idx |-> 0, num_applications |-> 0,
     applications |-> <<>>, attempts |-> <<>>, passes |-> 0, error |-> "",
     previous |-> None]

\* The checkout view of a request before anything ran in it: whether its
\* class has the PaymentDetailsMixin, its _fees attribute, the order_total
\* of its submission, the OrderFee rows of its order, and where it stands.
NoCheckout ==
    [pc |-> "idle", mixin |-> FALSE, _fees |-> None, order_total |-> None,
     order_fees |-> <<>>, error |-> ""]

\* No request of another user is under way.
NoSessions == <<>>

NoArgs == [fee_amount |-> None, max_total_fee |-> None]

\* What the last call was and what it returned; calls counts the calls.
NoCall == [op |-> "none", calls |-> 0, offer |-> 0, args |-> NoArgs,
           raised |-> FALSE, result |-> ZERO_FEE, trace |-> NoTrace,
           user |-> None, value |-> 0]

Called(op, offer, args, r) ==
    [op |-> op, calls |-> last.calls + 1, offer |-> offer, args |-> args,
     raised |-> r.raised, result |-> r.result, trace |-> r.trace,
     user |-> None, value |-> 0]

\* A call of offer.get_max_applications(user) that returned or raised.
Asked(offer, user, r) ==
    [NoCall EXCEPT !.op = "get_max_applications", !.calls = last.calls + 1,
                   !.offer = offer, !.user = user, !.raised = r.raised,
                   !.value = r.value]

Offers == DOMAIN conditional_fees

\* ----------------------------------------------- the allocation, called
InitAlloc ==
    /\ lines \in LineLists
    /\ basket = Basket(None)
    /\ \E c \in ConditionChoices, v \in FeeValues :
          conditional_fees = (1 :> ConditionalFee(1, c, Fee(1, "Absolute", v)))
    /\ applicator = IdleApplicator
    /\ last = NoCall
    /\ checkout = NoCheckout
    /\ sessions = NoSessions
    /\ suspended_since = (1 :> FALSE)

\* fee.apply(basket, condition, offer, fee_amount, max_total_fee) on the
\* Absolute fee of offer o.
Apply(o, fee_amount, max_total_fee) ==
    /\ applicator.pc = "idle"
    /\ last.calls < MaxCalls
    /\ conditional_fees[o].fee.type = "Absolute"
    /\ LET r == [raised |-> FALSE] @@
                AbsoluteFee_apply(lines, basket, conditional_fees[o].condition,
                                  conditional_fees[o].fee, fee_amount, max_total_fee)
       IN /\ lines' = r.lines
          /\ basket' = r.basket
          /\ last' = Called("apply", o, [fee_amount |-> fee_amount,
                                           max_total_fee |-> max_total_fee], r)
    /\ UNCHANGED <<conditional_fees, applicator, suspended_since,
                   checkout, sessions>>

\* offer.apply_fee(basket) on offer o.
ApplyFee(o) ==
    /\ applicator.pc = "idle"
    /\ last.calls < MaxCalls
    /\ LET r == apply_fee(conditional_fees[o], lines, basket)
       IN /\ lines' = r.lines
          /\ basket' = r.basket
          /\ last' = Called("apply_fee", o, NoArgs, r)
    /\ UNCHANGED <<conditional_fees, applicator, suspended_since,
                   checkout, sessions>>

NextAlloc ==
    \/ \E o \in Offers, a \in FeeAmountArgs, m \in MaxTotalFeeArgs : Apply(o, a, m)
    \/ \E o \in Offers : ApplyFee(o)

SpecAlloc == InitAlloc /\ [][NextAlloc]_vars

\* ------------------------------------------------ the rule, its limits
MaxOrders == 3

GlobalLimits == {None, Some(0), Some(2), Some(5)}
BasketLimits == {None, Some(0), Some(1)}
UserLimits == {None, Some(1)}
FeeLimits == {None, Some(0), Some(150)}
Users == {None, Some("u1")}
UsageChoices == [freq : {1, 2}, fee : {0, 100}]

InitRule ==
    /\ lines = <<>>
    /\ basket = Basket(None)
    /\ \E g \in GlobalLimits, b \in BasketLimits, u \in UserLimits, f \in FeeLimits :
          conditional_fees =
             (1 :> [ConditionalFee(1, [type |-> "Count", range |-> {1}, value |-> 250],
                                   Fee(1, "Absolute", 100))
                    EXCEPT !.max_global_applications = g,
                           !.max_basket_applications = b,
                           !.max_user_applications = u,
                           !.max_fee = f])
    /\ applicator = IdleApplicator
    /\ last = NoCall
    /\ checkout = NoCheckout
    /\ sessions = NoSessions
    /\ suspended_since = (1 :> FALSE)

\* offer.save()
Save(o) ==
    /\ conditional_fees' = [conditional_fees EXCEPT ![o] = save(@)]
    /\ UNCHANGED <<lines, basket, applicator, last, suspended_since,
                   checkout, sessions>>

\* offer.suspend()
Suspend(o) ==
    /\ conditional_fees' = [conditional_fees EXCEPT ![o] = suspend(@)]
    /\ suspended_since' = [suspended_since EXCEPT ![o] = TRUE]
    /\ UNCHANGED <<lines, basket, applicator, last,
                   checkout, sessions>>

\* offer.unsuspend()
Unsuspend(o) ==
    /\ conditional_fees' = [conditional_fees EXCEPT ![o] = unsuspend(@)]
    /\ suspended_since' = [suspended_since EXCEPT ![o] = FALSE]
    /\ UNCHANGED <<lines, basket, applicator, last,
                   checkout, sessions>>

\* offer.record_usage(fee)
RecordUsage(o, fee) ==
    /\ conditional_fees[o].num_orders < MaxOrders
    /\ conditional_fees' = [conditional_fees EXCEPT ![o] = record_usage(@, fee)]
    /\ UNCHANGED <<lines, basket, applicator, last, suspended_since,
                   checkout, sessions>>

\* The admin's change form of a ConditionalFee: the global limit edited,
\* the offer saved.
AdminChange(o, limit) ==
    /\ conditional_fees[o].max_global_applications # limit
    /\ conditional_fees' = [conditional_fees EXCEPT ![o] =
                               save([@ EXCEPT !.max_global_applications = limit])]
    /\ UNCHANGED <<lines, basket, applicator, last, suspended_since,
                   checkout, sessions>>

\* offer.get_max_applications(user), its answer kept in last.
GetMaxApplications(o, user) ==
    /\ last' = [Asked(o, user, get_max_applications(conditional_fees[o], user))
                EXCEPT !.calls = 1]
    /\ UNCHANGED <<lines, basket, conditional_fees, applicator, suspended_since,
                   checkout, sessions>>

NextRule ==
    \/ \E o \in Offers : Save(o)
    \/ \E o \in Offers : Suspend(o)
    \/ \E o \in Offers : Unsuspend(o)
    \/ \E o \in Offers, fee \in UsageChoices : RecordUsage(o, fee)
    \/ \E o \in Offers, limit \in GlobalLimits : AdminChange(o, limit)
    \/ \E o \in Offers, user \in Users : GetMaxApplications(o, user)

SpecRule == InitRule /\ [][NextRule]_vars

\* ------------------------------------------- FeeApplications (results.py)
\* FeeApplications.add(fee, result): applications maps an offer id to its
\* entry (the name and description texts are left out).
add(applications, fee, result) ==
    LET entry == IF fee.id \in DOMAIN applications
                 THEN applications[fee.id]
                 ELSE [fee |-> fee.id, result |-> result, freq |-> 0, amount |-> 0]
    IN (fee.id :> [entry EXCEPT !.amount = @ + result.fee, !.freq = @ + 1])
       @@ applications

\* ------------------------------------------------ Applicator (applicator.py)
Times == {1, 2, 3}

\* The offers of S, the newest first (Meta.ordering = ['-date_created']);
\* an offer created later has the larger id.
RECURSIVE newest_first(_)
newest_first(S) ==
    IF S = {} THEN <<>>
    ELSE LET m == CHOOSE x \in S : \A y \in S : y <= x
         IN <<m>> \o newest_first(S \ {m})

\* The filter of Applicator.get_site_fees; a comparison with NULL is not true.
is_site_fee(offer, cutoff) ==
    LET date_based ==
            /\ offer.start_datetime # None
            /\ Get(offer.start_datetime, 0) <= cutoff
            /\ \/ offer.end_datetime # None /\ Get(offer.end_datetime, 0) >= cutoff
               \/ offer.end_datetime = None
        nondate_based == offer.start_datetime = None /\ offer.end_datetime = None
    IN /\ date_based \/ nondate_based
       /\ offer.offer_type = "Site"
       /\ offer.status = "Open"

get_site_fees(cutoff) ==
    newest_first({o \in Offers : is_site_fee(conditional_fees[o], cutoff)})

get_user_fees(user) == <<>>

get_session_fees == <<>>

get_fees(user, cutoff) ==
    get_session_fees \o get_user_fees(user) \o get_site_fees(cutoff)

\* Mutant: the loop test off by one.
loop_continues_once_more(num_applications, max_applications) ==
    num_applications <= max_applications

\* The test of the while loop of Applicator.apply_fees.
loop_continues(num_applications, max_applications) ==
    num_applications < max_applications

\* The locals of apply_fees when its for loop starts.
apply_fees_begins(fees) ==
    [pc |-> "loop", fees |-> fees, idx |-> 1, num_applications |-> 0,
     applications |-> <<>>, attempts |-> [o \in Offers |-> 0],
     passes |-> applicator.passes + 1, error |-> "",
     previous |-> IF applicator.pc = "done" THEN Some(applicator.fees) ELSE None]

\* The for loop goes to the next offer.
next_fee(a) == [a EXCEPT !.idx = @ + 1, !.num_applications = 0]

CurrentFee == conditional_fees[applicator.fees[applicator.idx]]

MaxPasses == 2
MaxPassLines == 2

PassLineChoices == {Line(1, 1000, 1, 1), Line(1, 1000, 5, 5), Line(2, 500, 1, 1)}
PassLineLists == UNION {[1..n -> PassLineChoices] : n \in 0..MaxPassLines}
PassConditions == {[type |-> "Count", range |-> {1}, value |-> 250],
                   [type |-> "Coverage", range |-> {1}, value |-> 600]}
PassFees == {Fee(1, "Absolute", 100), Fee(1, "Absolute", 0), Fee(1, "Percentage", 100)}
PassBasketLimits == {None, Some(1)}
\* A global limit with the applications recorded against it.
PassGlobalUse == {[limit |-> None, used |-> 0], [limit |-> Some(2), used |-> 1],
                  [limit |-> Some(2), used |-> 2]}
FeeListChoices == {<<1>>, <<1, 2>>, <<2, 1>>}

\* Two offers as they were last saved, and a basket as a request loads it.
InitPass ==
    /\ lines \in PassLineLists
    /\ \E owner \in Users : basket = Basket(owner)
    /\ \E c \in PassConditions, f \in PassFees, b \in PassBasketLimits,
          u \in UserLimits, g \in PassGlobalUse :
          conditional_fees =
             (1 :> save([ConditionalFee(1, c, f)
                         EXCEPT !.max_basket_applications = b,
                                !.max_user_applications = u,
                                !.max_global_applications = g.limit,
                                !.num_applications = g.used]))
             @@
             (2 :> save([ConditionalFee(2, [type |-> "Coverage", range |-> {1, 2},
                                            value |-> 100],
                                        Fee(2, "Absolute", 50))
                         EXCEPT !.max_basket_applications = Some(2)]))
    /\ applicator = IdleApplicator
    /\ last = NoCall
    /\ checkout = NoCheckout
    /\ sessions = NoSessions
    /\ suspended_since = (1 :> FALSE) @@ (2 :> FALSE)

\* Applicator().apply(basket, user, request), as the middleware calls it.
ApplicatorApply(user, cutoff) ==
    /\ applicator.pc \in {"idle", "done", "raised"}
    /\ applicator.passes < MaxPasses
    /\ applicator' = apply_fees_begins(get_fees(user, cutoff))
    /\ UNCHANGED <<lines, basket, conditional_fees, last, suspended_since,
                   checkout, sessions>>

\* Applicator().apply_fees(basket, fees) called with a list of offers.
ApplyFees(fees) ==
    /\ applicator.pc \in {"idle", "done", "raised"}
    /\ applicator.passes < MaxPasses
    /\ applicator' = apply_fees_begins(fees)
    /\ UNCHANGED <<lines, basket, conditional_fees, last, suspended_since,
                   checkout, sessions>>

\* The while test raises: get_max_applications does, and apply_fees with it.
LoopTestRaises ==
    /\ applicator.pc = "loop"
    /\ applicator.idx <= Len(applicator.fees)
    /\ get_max_applications(CurrentFee, basket.owner).raised
    /\ applicator' = [applicator EXCEPT !.pc = "raised",
                                        !.error = "get_num_user_applications"]
    /\ UNCHANGED <<lines, basket, conditional_fees, last, suspended_since,
                   checkout, sessions>>

\* The while test fails: on to the next offer.
LoopTestFails ==
    /\ applicator.pc = "loop"
    /\ applicator.idx <= Len(applicator.fees)
    /\ LET m == get_max_applications(CurrentFee, basket.owner)
       IN /\ ~m.raised
          /\ ~loop_continues(applicator.num_applications, m.value)
    /\ applicator' = next_fee(applicator)
    /\ UNCHANGED <<lines, basket, conditional_fees, last, suspended_since,
                   checkout, sessions>>

\* One turn of the while loop: the offer is applied, and the result
\* recorded when it is successful.
Attempt ==
    /\ applicator.pc = "loop"
    /\ applicator.idx <= Len(applicator.fees)
    /\ LET m == get_max_applications(CurrentFee, basket.owner)
           r == apply_fee(CurrentFee, lines, basket)
           counted == [applicator EXCEPT
                          !.num_applications = @ + 1,
                          !.attempts[CurrentFee.id] = @ + 1]
       IN /\ ~m.raised
          /\ loop_continues(applicator.num_applications, m.value)
          /\ last' = Called("apply_fee", CurrentFee.id, NoArgs, r)
          /\ IF r.raised
             THEN /\ applicator' = [counted EXCEPT !.pc = "raised",
                                                   !.error = "PercentageFee.apply"]
                  /\ UNCHANGED <<lines, basket>>
             ELSE IF ~is_successful(r.result)
             THEN /\ applicator' = next_fee(counted)
                  /\ lines' = r.lines
                  /\ basket' = r.basket
             ELSE /\ lines' = r.lines
                  /\ basket' = [r.basket EXCEPT !.total_test = @ + 1]
                  /\ LET recorded == [counted EXCEPT !.applications =
                                         add(@, CurrentFee, r.result)]
                     IN applicator' = IF is_final(r.result)
                                      THEN next_fee(recorded) ELSE recorded
    /\ UNCHANGED <<conditional_fees, suspended_since,
                   checkout, sessions>>

\* After the for loop: the applications are stored with the basket.
StoreApplications ==
    /\ applicator.pc = "loop"
    /\ applicator.idx > Len(applicator.fees)
    /\ basket' = [basket EXCEPT !.fee_applications = Some(applicator.applications)]
    /\ applicator' = [applicator EXCEPT !.pc = "done"]
    /\ UNCHANGED <<lines, conditional_fees, last, suspended_since,
                   checkout, sessions>>

NextPass ==
    \/ \E cutoff \in Times : ApplicatorApply(basket.owner, cutoff)
    \/ \E fees \in FeeListChoices : ApplyFees(fees)
    \/ LoopTestRaises
    \/ LoopTestFails
    \/ Attempt
    \/ StoreApplications

SpecPass == InitPass /\ [][NextPass]_vars

\* =================================================================
\* Claims about the allocation (SpecAlloc)
\* =================================================================
\* A step that is one call of apply or apply_fee.
CallStep == last'.calls = last.calls + 1

LastOffer == conditional_fees[last.offer]

AllocationReached == last.op # "none" /\ last.trace.covered # <<>>

Eligible(i) ==
    /\ lines[i].product \in LastOffer.condition.range
    /\ lines[i].unit_effective_price # 0
    /\ lines[i].quantity_without_discount # 0

EligibleLines == {i \in 1..Len(lines) : Eligible(i)}

\* Line i comes before line j in the allocation order.
Before(i, j) ==
    \/ lines[i].unit_effective_price < lines[j].unit_effective_price
    \/ /\ lines[i].unit_effective_price = lines[j].unit_effective_price
       /\ i < j

FeeAmountAdded(i) == Get(lines'[i]._fee_amount, 0) - Get(lines[i]._fee_amount, 0)
FeeQuantityAdded(i) == Get(lines'[i]._fee_quantity, 0) - Get(lines[i]._fee_quantity, 0)

RECURSIVE FeeAmountAddedUpTo(_)
FeeAmountAddedUpTo(n) == IF n = 0 THEN 0 ELSE FeeAmountAdded(n) + FeeAmountAddedUpTo(n - 1)

RECURSIVE QuantityUpTo(_, _)
QuantityUpTo(cov, k) == IF k = 0 THEN 0 ELSE cov[k].quantity + QuantityUpTo(cov, k - 1)

\* The rounded-down shares of the first k covered lines.
RECURSIVE SharesUpTo(_, _, _, _)
SharesUpTo(cov, k, amount, total) ==
    IF k = 0 THEN 0
    ELSE (amount * cov[k].quantity) \div total + SharesUpTo(cov, k - 1, amount, total)

CoveredSet(cov) == {cov[k].line : k \in 1..Len(cov)}

\* C1: a call of AbsoluteFee.apply that reaches the allocation with a fee
\* amount > 0 adds to every covered line but the last the rounded-down share
\* feeAmount * quantityAffected / totalAffected, to the last covered line
\* feeAmount minus the shares before it, to no other line anything, and so
\* adds feeAmount exactly over the basket's lines.
C1_ExactAllocation ==
    [][(CallStep /\ last'.trace.covered # <<>> /\ last'.trace.fee_amount > 0) =>
        LET cov == last'.trace.covered
            amount == last'.trace.fee_amount
            total == QuantityUpTo(cov, Len(cov))
        IN /\ \A k \in 1..(Len(cov) - 1) :
                 FeeAmountAdded(cov[k].line) = (amount * cov[k].quantity) \div total
           /\ FeeAmountAdded(cov[Len(cov)].line) =
                 amount - SharesUpTo(cov, Len(cov) - 1, amount, total)
           /\ \A i \in (1..Len(lines)) \ CoveredSet(cov) : FeeAmountAdded(i) = 0
           /\ FeeAmountAddedUpTo(Len(lines)) = amount]_vars

\* C1 witness: an allocation over several lines whose shares do not divide
\* evenly, the last line taking the remainder.
C1_Witness ==
    /\ AllocationReached
    /\ Len(last.trace.covered) >= 2
    /\ (last.trace.fee_amount * last.trace.covered[1].quantity)
          % last.trace.num_affected # 0
    /\ SumSeq(last.trace.line_fees) = last.trace.fee_amount

\* The basket of the spec's example: prices 10.00, 5.00, 20.00, one unit each.
ExampleBasket ==
    /\ Len(lines) = 3
    /\ lines[1].unit_effective_price = 1000
    /\ lines[2].unit_effective_price = 500
    /\ lines[3].unit_effective_price = 2000
    /\ \A i \in 1..3 : lines[i].quantity = 1 /\ Eligible(i)
    /\ LastOffer.condition.value \div 100 = 2

\* C2: the covered lines are eligible lines, in ascending order of unit
\* price with equal prices in basket order, and every eligible line left
\* uncovered comes after every covered line in that order; the example
\* basket with numPermitted = 2 covers the 5.00 line, then the 10.00 line.
C2_CheapestFirstPrefix ==
    AllocationReached =>
        LET cov == last.trace.covered
        IN /\ CoveredSet(cov) \subseteq EligibleLines
           /\ \A k \in 1..(Len(cov) - 1) : Before(cov[k].line, cov[k + 1].line)
           /\ \A i \in EligibleLines \ CoveredSet(cov), j \in CoveredSet(cov) :
                 Before(j, i)
           /\ ExampleBasket => [k \in 1..Len(cov) |-> cov[k].line] = <<2, 1>>

\* C2 witness: the example basket, the 20.00 line left uncovered.
C2_Witness ==
    /\ AllocationReached
    /\ ExampleBasket
    /\ CoveredSet(last.trace.covered) = {1, 2}

\* C3: a covered line's affected quantity is 1 under a Coverage condition
\* and the line's quantity otherwise; the lines before the last covered one
\* leave the running total below numPermitted = floor(condition.value), and
\* the last one reaches it unless the eligible lines ran out.
C3_WholeLineQuantities ==
    AllocationReached =>
        LET cov == last.trace.covered
            permitted == LastOffer.condition.value \div 100
        IN /\ \A k \in 1..Len(cov) :
                 /\ cov[k].quantity = IF LastOffer.condition.type = "Coverage"
                                      THEN 1 ELSE lines[cov[k].line].quantity
                 /\ Get(lines[cov[k].line]._fee_quantity, 0) >= cov[k].quantity
           /\ \A k \in 1..(Len(cov) - 1) : QuantityUpTo(cov, k) < permitted
           /\ \/ QuantityUpTo(cov, Len(cov)) >= permitted
              \/ CoveredSet(cov) = EligibleLines
           /\ last.trace.num_affected = QuantityUpTo(cov, Len(cov))

\* C3 witness: the line that crosses the threshold takes the total past it.
C3_Witness ==
    /\ AllocationReached
    /\ Len(last.trace.covered) >= 2
    /\ last.trace.num_affected > LastOffer.condition.value \div 100

\* The case of C4: a Count condition of value 6, the eligible lines being
\* one of quantity 5 and then one of quantity 3.
CountSixOverFiveAndThree(o, tuples) ==
    /\ tuples # <<>>
    /\ conditional_fees[o].condition.type = "Count"
    /\ conditional_fees[o].condition.value = 600
    /\ Len(tuples) = 2
    /\ lines[tuples[1].line].quantity = 5
    /\ lines[tuples[2].line].quantity = 3

\* C4 as claimed: the call covers one unit of the second line, 6 units in all.
C4_OneUnitOfSecondLine ==
    [][(CallStep /\ CountSixOverFiveAndThree(last'.offer, last'.trace.line_tuples)) =>
        /\ FeeQuantityAdded(last'.trace.line_tuples[2].line) = 1
        /\ last'.trace.num_affected = 6]_vars

\* C4 amended: for a Count condition of value 6 against eligible lines of
\* quantity 5 and 3, the call covers both lines whole: it adds 5 to the fee
\* quantity of the first, 3 to that of the second, and affects 8 units.
C4_WholeSecondLine ==
    [][(CallStep /\ CountSixOverFiveAndThree(last'.offer, last'.trace.line_tuples)) =>
        /\ FeeQuantityAdded(last'.trace.line_tuples[1].line) = 5
        /\ FeeQuantityAdded(last'.trace.line_tuples[2].line) = 3
        /\ last'.trace.num_affected = 8]_vars

\* C4 witness: the case after the call, the second line annotated.
C4_Witness ==
    /\ last.op # "none"
    /\ CountSixOverFiveAndThree(last.offer, last.trace.line_tuples)
    /\ Len(last.trace.covered) = 2
    /\ lines[last.trace.line_tuples[2].line]._fee_quantity # None

\* The three ways a call is not applicable.
ConditionUnmet ==
    last.op = "apply_fee" /\ ~is_satisfied(LastOffer.condition, lines)

FeeAmountZero ==
    LET a == IF last.args.fee_amount = None THEN LastOffer.fee.value
             ELSE Get(last.args.fee_amount, 0)
    IN \/ a = 0
       \/ last.args.max_total_fee # None /\ Get(last.args.max_total_fee, 0) = 0

NoEligibleLines == EligibleLines = {}

NonApplicable ==
    /\ last.op # "none"
    /\ ~last.raised
    /\ (ConditionUnmet \/ FeeAmountZero \/ NoEligibleLines)

\* C5: a call that is not applicable (condition not satisfied, fee amount 0
\* after the clamp, no eligible line) changes no line annotation and nothing
\* of the basket: not its total fee amount, not its applied-fee list.
C5_NonApplicableLeavesBasket ==
    [][(CallStep /\ NonApplicable') => (lines' = lines /\ basket' = basket)]_vars

\* C5 witness: a fee of positive value with eligible lines, not applied
\* because the condition is not satisfied.
C5_Witness ==
    /\ NonApplicable
    /\ ConditionUnmet /\ ~FeeAmountZero /\ ~NoEligibleLines
    /\ basket._fees = None

ClaimedMaxApplications(offer) ==
    IF offer.max_fee # None /\ offer.total_fee >= Get(offer.max_fee, 0)
    THEN 0
    ELSE Min({10000}
             \cup (IF offer.max_basket_applications # None
                   THEN {Get(offer.max_basket_applications, 0)} ELSE {})
             \cup (IF offer.max_global_applications # None
                   THEN {Max2(0, Get(offer.max_global_applications, 0)
                                 - offer.num_applications)}
                   ELSE {}))

\* C8 as claimed: with no user, get_max_applications returns 0 when maxFee
\* is set (0 included) and reached, and otherwise the minimum of 10000 and
\* of every limit that is set, a limit of 0 counting as set.
C8_ZeroLimitsCount ==
    [][(last'.op = "get_max_applications" /\ last' # last /\ last'.user = None) =>
        /\ ~last'.raised
        /\ last'.value = ClaimedMaxApplications(conditional_fees[last'.offer])]_vars

\* C10: an offer suspended and not unsuspended since is Suspended; any
\* other offer is Consumed exactly when get_max_applications(no user) is 0
\* and Open otherwise; 5 applications of 5 allowed make it Consumed.
C10_StatusDerivation ==
    \A o \in Offers :
        LET offer == conditional_fees[o]
        IN /\ suspended_since[o] => offer.status = "Suspended"
           /\ ~suspended_since[o] =>
                 /\ offer.status \in {"Open", "Consumed"}
                 /\ offer.status = "Consumed" <=>
                       get_max_applications(offer, None) = Returned(0)
                 /\ (/\ offer.max_global_applications = Some(5)
                     /\ offer.num_applications >= 5) => offer.status = "Consumed"

\* C10 witness: 5 applications recorded of 5 allowed, the offer Consumed.
C10_Witness ==
    /\ conditional_fees[1].max_global_applications = Some(5)
    /\ conditional_fees[1].num_applications = 5
    /\ conditional_fees[1].num_orders > 0
    /\ conditional_fees[1].status = "Consumed"

\* =================================================================
\* Claims about the evaluation pass (SpecPass)
\* =================================================================
InPass == applicator.pc # "idle"

FeesOfPass == {applicator.fees[k] : k \in 1..Len(applicator.fees)}

\* C7: in a pass, an offer is attempted at most get_max_applications(owner)
\* times, never when that value is <= 0 (or when asking for it raises), and
\* an offer with maxBasketApplications = 1 is attempted and applied at most
\* once.
C7_AttemptsWithinMaxApplications ==
    InPass =>
        \A o \in Offers :
            LET m == get_max_applications(conditional_fees[o], basket.owner)
            IN /\ m.raised => applicator.attempts[o] = 0
               /\ ~m.raised => applicator.attempts[o] <= Max2(0, m.value)
               /\ conditional_fees[o].max_basket_applications = Some(1) =>
                     /\ applicator.attempts[o] <= 1
                     /\ o \in DOMAIN applicator.applications =>
                           applicator.applications[o].freq <= 1

\* C7 witness: a pass that is over, in which an offer with
\* maxBasketApplications = 1 was attempted once and applied once.
C7_Witness ==
    /\ applicator.pc = "done"
    /\ conditional_fees[1].max_basket_applications = Some(1)
    /\ applicator.attempts[1] = 1
    /\ 1 \in DOMAIN applicator.applications
    /\ applicator.applications[1].freq = 1

\* C9 as claimed: a pass over the basket of a known user, all of its offers
\* Absolute fees and one of them with maxUserApplications set, does not
\* raise: once over, it has attached its applications to the basket.
C9_KnownUserPassCompletes ==
    (/\ applicator.pc \in {"done", "raised"}
     /\ basket.owner # None
     /\ \A o \in FeesOfPass : conditional_fees[o].fee.type = "Absolute"
     /\ \E o \in FeesOfPass : conditional_fees[o].max_user_applications # None)
    => /\ applicator.pc = "done"
       /\ basket.fee_applications = Some(applicator.applications)

\* =================================================================
\* The availability window (models.py, applicator.py)
\* =================================================================
\* Mutant: the end of the window excluded.
is_available_end_exclusive(offer, user, test_date) ==
    IF is_suspended(offer) THEN Returned(FALSE)
    ELSE LET predicates ==
                 (IF offer.start_datetime # None
                  THEN {Get(offer.start_datetime, 0) > test_date} ELSE {})
                 \cup (IF offer.end_datetime # None
                       THEN {test_date >= Get(offer.end_datetime, 0)} ELSE {})
             m == get_max_applications(offer, user)
         IN IF TRUE \in predicates THEN Returned(FALSE)
            ELSE IF m.raised THEN Raised
            ELSE Returned(m.value > 0)

\* ConditionalFee.is_available(user, test_date); a datetime is always true
\* in a Python condition, so a bound counts whenever it is not None.
is_available(offer, user, test_date) ==
    IF is_suspended(offer) THEN Returned(FALSE)
    ELSE LET predicates ==
                 (IF offer.start_datetime # None
                  THEN {Get(offer.start_datetime, 0) > test_date} ELSE {})
                 \cup (IF offer.end_datetime # None
                       THEN {test_date > Get(offer.end_datetime, 0)} ELSE {})
             m == get_max_applications(offer, user)
         IN IF TRUE \in predicates THEN Returned(FALSE)
            ELSE IF m.raised THEN Raised
            ELSE Returned(m.value > 0)

Bounds == {None} \cup {Some(t) : t \in Times}
OfferTypes == {"Site", "User"}
WindowGlobalUse == {[limit |-> None, used |-> 0], [limit |-> Some(2), used |-> 2]}

\* What a call about the window was asked and what it answered.
WindowCall(op, offer, user, test_date, raised, answer, selected) ==
    [test_date |-> test_date, answer |-> answer, selected |-> selected]
    @@ [NoCall EXCEPT !.op = op, !.calls = 1, !.offer = offer, !.user = user,
                      !.raised = raised]

\* One stored offer with its window, its type and its use.
InitWindow ==
    /\ lines = <<>>
    /\ basket = Basket(None)
    /\ \E s \in Bounds, e \in Bounds, t \in OfferTypes, u \in UserLimits,
          g \in WindowGlobalUse :
          conditional_fees =
             (1 :> save([ConditionalFee(1, [type |-> "Count", range |-> {1},
                                            value |-> 250],
                                        Fee(1, "Absolute", 100))
                         EXCEPT !.start_datetime = s,
                                !.end_datetime = e,
                                !.offer_type = t,
                                !.max_user_applications = u,
                                !.max_global_applications = g.limit,
                                !.num_applications = g.used]))
    /\ applicator = IdleApplicator
    /\ last = NoCall
    /\ checkout = NoCheckout
    /\ sessions = NoSessions
    /\ suspended_since = (1 :> FALSE)

\* offer.is_available(user, test_date), its answer kept in last.
IsAvailable(o, user, test_date) ==
    /\ LET r == is_available(conditional_fees[o], user, test_date)
       IN last' = WindowCall("is_available", o, user, test_date, r.raised,
                             IF r.raised THEN FALSE ELSE r.value, <<>>)
    /\ UNCHANGED <<lines, basket, conditional_fees, applicator, suspended_since,
                   checkout, sessions>>

\* Applicator().get_site_fees() at the instant cutoff, the selection kept
\* in last.
GetSiteFees(cutoff) ==
    /\ last' = WindowCall("get_site_fees", 0, None, cutoff, FALSE, FALSE,
                          get_site_fees(cutoff))
    /\ UNCHANGED <<lines, basket, conditional_fees, applicator, suspended_since,
                   checkout, sessions>>

NextWindow ==
    \/ \E o \in Offers, user \in Users, t \in Times : IsAvailable(o, user, t)
    \/ \E t \in Times : GetSiteFees(t)
    \/ \E o \in Offers : Suspend(o)
    \/ \E o \in Offers : Unsuspend(o)

SpecWindow == InitWindow /\ [][NextWindow]_vars

\* -------------------------------------------- claims about the window
\* t lies in the window of the offer, a bound that is absent not counting.
InWindow(offer, t) ==
    /\ offer.start_datetime = None \/ Get(offer.start_datetime, 0) <= t
    /\ offer.end_datetime = None \/ t <= Get(offer.end_datetime, 0)

IsAvailableStep == last'.op = "is_available" /\ last' # last

\* C11: is_available(test_date) on an offer that is not suspended and has
\* applications left answers whether test_date lies in the window, both
\* ends included and an absent bound open; on a suspended offer it answers
\* false.
C11_AvailabilityWindow ==
    [][IsAvailableStep =>
         LET offer == conditional_fees[last'.offer]
             m == get_max_applications(offer, last'.user)
         IN /\ is_suspended(offer) => ~last'.raised /\ ~last'.answer
            /\ (~is_suspended(offer) /\ ~m.raised /\ m.value > 0) =>
                  /\ ~last'.raised
                  /\ last'.answer <=> InWindow(offer, last'.test_date)]_vars

\* C11 witness: an offer with applications left, asked at exactly its end,
\* has answered that it is available.
C11_Witness ==
    /\ last.op = "is_available"
    /\ ~is_suspended(conditional_fees[last.offer])
    /\ conditional_fees[last.offer].end_datetime = Some(last.test_date)
    /\ conditional_fees[last.offer].start_datetime # None
    /\ last.answer

\* C19 as claimed: get_site_fees at t selects an Open Site offer exactly
\* when t lies in its window, an absent bound open.
C19_SelectionAgreesWithWindow ==
    [][(last'.op = "get_site_fees" /\ last' # last) =>
         \A o \in Offers :
            (conditional_fees[o].offer_type = "Site"
             /\ conditional_fees[o].status = "Open") =>
               ((\E k \in 1..Len(last'.selected) : last'.selected[k] = o)
                <=> InWindow(conditional_fees[o], last'.test_date))]_vars

\* =================================================================
\* More claims about the evaluation pass (SpecPass)
\* =================================================================
\* The pass stores its applications with the basket.
StoreStep == applicator.pc = "loop" /\ applicator'.pc = "done"

\* What a Ledger says: per offer id the count and the amount.
LedgerContents(applications) ==
    [o \in DOMAIN applications |->
        [freq |-> applications[o].freq, amount |-> applications[o].amount]]

\* C12: a pass that follows a finished pass over the same offers, lines
\* and counters attaches a Ledger with the contents of the Ledger that is
\* attached already.
C12_SecondPassSameLedger ==
    [][(StoreStep /\ applicator.previous = Some(applicator.fees)) =>
          /\ basket.fee_applications # None
          /\ LedgerContents(Get(basket'.fee_applications, <<>>))
                = LedgerContents(Get(basket.fee_applications, <<>>))]_vars

\* C12 witness: the second of two finished passes over the same offers has
\* attached a Ledger that is not empty.
C12_Witness ==
    /\ applicator.pc = "done"
    /\ applicator.passes = 2
    /\ applicator.previous = Some(applicator.fees)
    /\ basket.fee_applications = Some(applicator.applications)
    /\ DOMAIN applicator.applications # {}

\* A line, a basket without the attributes a pass sets.
Unannotated(ls) ==
    [i \in 1..Len(ls) |-> [ls[i] EXCEPT !._fee_amount = None,
                                         !._fee_quantity = None]]

Unfeed(b) == [b EXCEPT !._fees = None, !._total_fees_amount = None]

\* The lines and the basket one pass over fees, from its k-th offer on,
\* leaves of ls and b; no offer of the pass raises, and an offer is tried
\* once.
RECURSIVE PassAlone(_, _, _, _)
PassAlone(fees, k, ls, b) ==
    IF k > Len(fees) THEN [lines |-> ls, basket |-> b]
    ELSE LET offer == conditional_fees[fees[k]]
             m == get_max_applications(offer, b.owner)
             r == apply_fee(offer, ls, b)
         IN IF m.value > 0
            THEN PassAlone(fees, k + 1, r.lines, r.basket)
            ELSE PassAlone(fees, k + 1, ls, b)

SumFeeAmount(ls) == SumSeq([i \in 1..Len(ls) |-> Get(ls[i]._fee_amount, 0)])

\* C13 as claimed: when a pass is over, the lines' fee amounts and fee
\* quantities and the basket's total and list of fees are those the last
\* pass alone gives.
C13_AnnotationsOfLastPassOnly ==
    applicator.pc = "done" =>
        LET alone == PassAlone(applicator.fees, 1, Unannotated(lines), Unfeed(basket))
        IN /\ \A i \in 1..Len(lines) :
                 /\ Get(lines[i]._fee_amount, 0) = Get(alone.lines[i]._fee_amount, 0)
                 /\ Get(lines[i]._fee_quantity, 0) = Get(alone.lines[i]._fee_quantity, 0)
           /\ Get(basket._total_fees_amount, 0) = Get(alone.basket._total_fees_amount, 0)
           /\ Get(basket._fees, <<>>) = Get(alone.basket._fees, <<>>)

\* The first pass over a basket leaves what a pass alone leaves.
C13_FirstPassAlone ==
    (applicator.pc = "done" /\ applicator.passes = 1) => C13_AnnotationsOfLastPassOnly

\* An attempt of the while loop has been made.
AttemptStep == applicator.pc = "loop" /\ last'.calls = last.calls + 1

AttemptedOffer == applicator.fees[applicator.idx]

\* C16: an attempt whose result is unsuccessful (or that raises) records
\* nothing, leaves the basket's counter and ends the repetition of the
\* offer; a successful one has an amount > 0 and adds 1 to the count and
\* its amount to the total of the offer's entry; a pass starts with an
\* empty Ledger and attaches the Ledger it has made.
C16_LedgerOfSuccessfulApplications ==
    [][/\ (AttemptStep /\ (last'.raised \/ last'.result.fee <= 0)) =>
             /\ applicator'.applications = applicator.applications
             /\ basket'.total_test = basket.total_test
             /\ applicator'.pc = "raised" \/ applicator'.idx = applicator.idx + 1
       /\ (AttemptStep /\ ~last'.raised /\ last'.result.fee > 0) =>
             LET o == AttemptedOffer
                 before == IF o \in DOMAIN applicator.applications
                           THEN applicator.applications[o]
                           ELSE [freq |-> 0, amount |-> 0]
             IN /\ DOMAIN applicator'.applications
                      = DOMAIN applicator.applications \cup {o}
                /\ applicator'.applications[o].freq = before.freq + 1
                /\ applicator'.applications[o].amount
                      = before.amount + last'.result.fee
                /\ applicator'.applications[o].amount > 0
                /\ basket'.total_test = basket.total_test + 1
                /\ \A p \in DOMAIN applicator.applications \ {o} :
                      applicator'.applications[p] = applicator.applications[p]
       /\ (applicator'.passes # applicator.passes) => applicator'.applications = <<>>
       /\ (~AttemptStep /\ applicator'.passes = applicator.passes) =>
             applicator'.applications = applicator.applications
       /\ StoreStep => basket'.fee_applications = Some(applicator.applications)]_vars

\* C16 witness: a finished pass in which offer 1 was tried without success
\* and is not in the attached Ledger, and offer 2 was applied and is.
C16_Witness ==
    /\ applicator.pc = "done"
    /\ basket.fee_applications = Some(applicator.applications)
    /\ applicator.attempts[1] = 1
    /\ 1 \notin DOMAIN applicator.applications
    /\ 2 \in DOMAIN applicator.applications
    /\ applicator.applications[2].amount > 0

\* The value of the fee with this id.
FeeValue(id) ==
    LET o == CHOOSE x \in Offers : conditional_fees[x].fee.id = id
    IN conditional_fees[o].fee.value

FeeValues_of(fees) == SumSeq([k \in 1..Len(fees) |-> FeeValue(fees[k])])

\* C17: the lines' fee amounts add up to the basket's total fee amount,
\* which is the sum of the values of the fees in the basket's list of
\* fees; no line's fee amount is negative.
C17_Conservation ==
    /\ SumFeeAmount(lines) = Get(basket._total_fees_amount, 0)
    /\ Get(basket._total_fees_amount, 0) = FeeValues_of(Get(basket._fees, <<>>))
    /\ \A i \in 1..Len(lines) : Get(lines[i]._fee_amount, 0) >= 0

\* C17 witness: three fees applied to the basket, one of them shared by
\* two lines.
C17_Witness ==
    /\ Len(Get(basket._fees, <<>>)) >= 3
    /\ Len(lines) = 2
    /\ \A i \in 1..2 : Get(lines[i]._fee_amount, 0) > 0
    /\ lines[1].quantity # lines[2].quantity

OrderTotals == {None, Some(1000)}
CheckoutLineLists == {<<>>, <<Line(1, 1000, 1, 1)>>, <<Line(2, 500, 1, 1)>>}
CheckoutGlobalLimits == {None, Some(1)}

\* A request with its basket, one stored offer, and a checkout view with
\* or without the PaymentDetailsMixin.
InitCheckout ==
    /\ lines \in CheckoutLineLists
    /\ \E owner \in Users : basket = Basket(owner)
    /\ \E v \in FeeValues, g \in CheckoutGlobalLimits, u \in UserLimits :
          conditional_fees =
             (1 :> save([ConditionalFee(1, [type |-> "Coverage", range |-> {1},
                                            value |-> 100],
                                        Fee(1, "Absolute", v))
                         EXCEPT !.max_global_applications = g,
                                !.max_user_applications = u]))
    /\ applicator = IdleApplicator
    /\ last = NoCall
    /\ \E m \in BOOLEAN : checkout = [NoCheckout EXCEPT !.mixin = m]
    /\ sessions = NoSessions
    /\ suspended_since = (1 :> FALSE)

\* BasketMiddleware.apply_fees_to_basket: a basket that is not empty is
\* evaluated.
ApplyFeesToBasket(cutoff) ==
    /\ checkout.pc = "idle"
    /\ applicator.pc = "idle"
    /\ lines # <<>>
    /\ ApplicatorApply(basket.owner, cutoff)

\* The evaluation the middleware started goes on.
PassStep ==
    /\ checkout.pc = "idle"
    /\ LoopTestRaises \/ LoopTestFails \/ Attempt \/ StoreApplications

\* PaymentDetailsMixin.build_submission, order_total being the total of
\* the submission the view built.
BuildSubmission(order_total) ==
    /\ checkout.pc = "idle"
    /\ checkout.mixin
    /\ applicator.pc \in {"idle", "done"}
    /\ LET taken == basket._fees # None /\ order_total # None
           fees == IF taken THEN Get(basket._fees, <<>>) ELSE <<>>
       IN checkout' = [checkout EXCEPT
                          !.pc = "built",
                          !._fees = Some(fees),
                          !.order_total =
                              IF taken
                              THEN Some(Get(order_total, 0) + FeeValues_of(fees))
                              ELSE order_total]
    /\ UNCHANGED <<lines, basket, conditional_fees, applicator, last,
                   suspended_since, sessions>>

\* build_submission of a view without the mixin: the submission only.
BuildSubmissionWithoutMixin(order_total) ==
    /\ checkout.pc = "idle"
    /\ ~checkout.mixin
    /\ applicator.pc \in {"idle", "done"}
    /\ checkout' = [checkout EXCEPT !.pc = "built", !.order_total = order_total]
    /\ UNCHANGED <<lines, basket, conditional_fees, applicator, last,
                   suspended_since, sessions>>

\* The OrderFee rows update_order_with_fee saves for the fees of a sender.
order_fees_of(fees) ==
    [k \in 1..Len(fees) |-> [fee_id |-> fees[k], amount |-> FeeValue(fees[k])]]

\* update_order_with_fee(sender, order, ...), the sender being the view;
\* a sender without _fees makes it raise FeesNotFound.
UpdateOrderWithFee ==
    /\ checkout.pc \in {"idle", "built"}
    /\ applicator.pc \in {"idle", "done"}
    /\ checkout' = IF checkout._fees = None
                   THEN [checkout EXCEPT !.pc = "raised", !.error = "FeesNotFound"]
                   ELSE [checkout EXCEPT
                            !.pc = "placed",
                            !.order_fees = order_fees_of(Get(checkout._fees, <<>>))]
    /\ UNCHANGED <<lines, basket, conditional_fees, applicator, last,
                   suspended_since, sessions>>

NextCheckout ==
    \/ \E cutoff \in Times : ApplyFeesToBasket(cutoff)
    \/ PassStep
    \/ \E t \in OrderTotals : BuildSubmission(t)
    \/ \E t \in OrderTotals : BuildSubmissionWithoutMixin(t)
    \/ UpdateOrderWithFee

SpecCheckout == InitCheckout /\ [][NextCheckout]_vars

\* ------------------------------------------ claims about the checkout
\* The hook has run, to its end or to an exception.
HookStep == checkout.pc \in {"idle", "built"} /\ checkout'.pc \in {"placed", "raised"}

\* C14 as claimed: when the hook has run to its end for a basket with a
\* Ledger, every offer of the Ledger has its num_applications raised by
\* the count of its entry, its total_fee by the amount and its num_orders
\* by 1.
C14_HookRecordsUsage ==
    [][(HookStep /\ checkout'.pc = "placed") =>
          \A o \in DOMAIN Get(basket.fee_applications, <<>>) :
             LET entry == Get(basket.fee_applications, <<>>)[o]
             IN /\ conditional_fees'[o].num_applications
                      = conditional_fees[o].num_applications + entry.freq
                /\ conditional_fees'[o].total_fee
                      = conditional_fees[o].total_fee + entry.amount
                /\ conditional_fees'[o].num_orders
                      = conditional_fees[o].num_orders + 1]_vars

\* C15 as claimed: the hook run for a basket that has no list of fees
\* raises FeesNotFound, after build_submission or without it.
C15_HookWithoutFeesRaises ==
    [][(HookStep /\ basket._fees = None) =>
          /\ checkout'.pc = "raised"
          /\ checkout'.error = "FeesNotFound"]_vars

\* =================================================================
\* Requests of several users against one stored offer
\* =================================================================
ConcUsers == {"u1", "u2", "u3"}
ConcGlobalLimits == {Some(1), Some(2), Some(3)}
Shapes == {"application", "usage"}

\* The basket of every one of the users: one line of product 1.
UserLines == <<Line(1, 1000, 1, 1)>>

\* A request not yet started: the offer object it loads (copy), the entry
\* of its Ledger, the frequency it handed to record_usage.
NoSession == [pc |-> "start", copy |-> None, entry |-> None, recorded |-> 0,
              error |-> ""]

InitConc ==
    /\ lines = <<>>
    /\ basket = Basket(None)
    /\ \E g \in ConcGlobalLimits :
          conditional_fees =
             (1 :> save([ConditionalFee(1, [type |-> "Coverage", range |-> {1},
                                            value |-> 100],
                                        Fee(1, "Absolute", 100))
                         EXCEPT !.max_global_applications = g]))
    /\ applicator = IdleApplicator
    /\ last = NoCall
    /\ checkout = NoCheckout
    /\ sessions = [u \in ConcUsers |-> NoSession]
    /\ suspended_since = (1 :> FALSE)

\* get_site_fees in the request of u: the row of the offer, if the query
\* selects it, becomes an object of this request.
Load(u, cutoff) ==
    /\ sessions[u].pc = "start"
    /\ sessions' = [sessions EXCEPT ![u] =
                       [@ EXCEPT !.pc = "loaded",
                                 !.copy = IF get_site_fees(cutoff) = <<>> THEN None
                                          ELSE Some(conditional_fees[1])]]
    /\ UNCHANGED <<lines, basket, conditional_fees, applicator, last,
                   suspended_since, checkout>>

\* The Ledger entry apply_fees makes of the offer object for the basket
\* of u: none when the offer may not be applied or its result is not
\* successful.
entry_of(offer, u) ==
    LET m == get_max_applications(offer, Some(u))
        r == apply_fee(offer, UserLines, Basket(Some(u)))
    IN IF ~m.raised /\ loop_continues(0, m.value) /\ ~r.raised
          /\ is_successful(r.result)
       THEN Some(add(<<>>, offer, r.result)[offer.id])
       ELSE None

\* apply_fees in the request of u, over the object the request loaded.
Evaluate(u) ==
    /\ sessions[u].pc = "loaded"
    /\ sessions' = [sessions EXCEPT ![u] =
                       [@ EXCEPT !.pc = "evaluated",
                                 !.entry = IF sessions[u].copy = None THEN None
                                           ELSE entry_of(Get(sessions[u].copy,
                                                             conditional_fees[1]), u)]]
    /\ UNCHANGED <<lines, basket, conditional_fees, applicator, last,
                   suspended_since, checkout>>

\* The order of u is placed and record_usage called on the object of the
\* request.  Handed the Ledger entry itself (shape "application"), line
\* 243 adds entry['fee'], which is the offer, to a Decimal: TypeError
\* after line 242 and before save().  Handed a mapping of the entry's
\* count and amount (shape "usage"), it adds them and saves the object,
\* every column of the row written from it.
Complete(u, shape) ==
    /\ sessions[u].pc = "evaluated"
    /\ sessions[u].entry # None
    /\ LET copy == Get(sessions[u].copy, conditional_fees[1])
           entry == Get(sessions[u].entry, [freq |-> 0, amount |-> 0])
       IN IF shape = "application"
          THEN /\ sessions' = [sessions EXCEPT ![u] =
                                 [@ EXCEPT !.pc = "raised",
                                           !.error = "TypeError",
                                           !.recorded = entry.freq,
                                           !.copy = Some([copy EXCEPT
                                               !.num_applications = @ + entry.freq])]]
               /\ UNCHANGED conditional_fees
          ELSE LET saved == record_usage(copy, [freq |-> entry.freq,
                                                fee |-> entry.amount])
               IN /\ sessions' = [sessions EXCEPT ![u] =
                                    [@ EXCEPT !.pc = "done",
                                              !.recorded = entry.freq,
                                              !.copy = Some(saved)]]
                  /\ conditional_fees' = [conditional_fees EXCEPT ![1] = saved]
    /\ UNCHANGED <<lines, basket, applicator, last, suspended_since, checkout>>

NextConc ==
    \/ \E u \in ConcUsers, cutoff \in Times : Load(u, cutoff)
    \/ \E u \in ConcUsers : Evaluate(u)
    \/ \E u \in ConcUsers, shape \in Shapes : Complete(u, shape)

SpecConc == InitConc /\ [][NextConc]_vars

\* ---------------------------------------------- claims about requests
RECURSIVE RecordedBy(_)
RecordedBy(S) ==
    IF S = {} THEN 0
    ELSE LET u == CHOOSE x \in S : TRUE
         IN sessions[u].recorded + RecordedBy(S \ {u})

\* C20 as claimed: the stored num_applications of the offer is what it
\* was at first (0) plus the frequencies handed to record_usage, and it is
\* never larger than max_global_applications.
C20_NoApplicationLost ==
    /\ conditional_fees[1].num_applications = RecordedBy(DOMAIN sessions)
    /\ conditional_fees[1].num_applications
          <= Get(conditional_fees[1].max_global_applications, 0)

\* C20, the interleaving alone: the same for requests that all hand
\* record_usage a mapping it can add.
C20_NoApplicationLostWhenSaved ==
    (\A u \in DOMAIN sessions : sessions[u].pc # "raised") => C20_NoApplicationLost

====
